---- MODULE Spec2Model ----
(***************************************************************************)
(* Model of the test-assets download pipeline (src/src/lib.rs):            *)
(* Sha256Hash::from_hex / to_hex, download_test_file, dl_test_files and    *)
(* dl_test_files_backoff, over a directory holding the downloaded files    *)
(* and the hash_list manifest.                                             *)
(***************************************************************************)
EXTENDS Integers, Sequences, FiniteSets, TLC

(***************************************************************************)
(* Sizes.                                                                  *)
(***************************************************************************)
\* Sha256Hash([u8; 32]): the number of bytes of a hash value.
HashBytes == 32
\* backon's ExponentialBuilder::default() retries at most 3 times.
MaxTimes == 3
\* Longest asset list handed to one call.
MaxAssets == 2
\* Longest response body the server sends.
MaxBody == 1
\* Calls made on one directory.
MaxRuns == 2
\* How far an input of from_hex may fall short of, or exceed, 2 * HashBytes.
MaxSlack == 2

\* Option<T>: None is the empty sequence, Some(x) the one-element sequence.
None == <<>>
Some(x) == <<x>>

(***************************************************************************)
(* Characters.  A string is a sequence of one-character strings.           *)
(***************************************************************************)
LowerDigits ==
    <<"0", "1", "2", "3", "4", "5", "6", "7", "8", "9", "a", "b", "c", "d", "e", "f">>
UpperDigits ==
    <<"0", "1", "2", "3", "4", "5", "6", "7", "8", "9", "A", "B", "C", "D", "E", "F">>

\* to_digit with a character that is no digit read as 0.
to_digit_or_zero(c) ==
    IF \E i \in 1..16 : LowerDigits[i] = c
    THEN Some((CHOOSE i \in 1..16 : LowerDigits[i] = c) - 1)
    ELSE IF \E i \in 1..16 : UpperDigits[i] = c
         THEN Some((CHOOSE i \in 1..16 : UpperDigits[i] = c) - 1)
         ELSE Some(0)

\* char::to_digit(16): the value of an ASCII hex digit of either case, or None.
to_digit(c) ==
    IF \E i \in 1..16 : LowerDigits[i] = c
    THEN Some((CHOOSE i \in 1..16 : LowerDigits[i] = c) - 1)
    ELSE IF \E i \in 1..16 : UpperDigits[i] = c
         THEN Some((CHOOSE i \in 1..16 : UpperDigits[i] = c) - 1)
         ELSE None

\* std::char::from_digit(d, 16): the lowercase digit of d < 16.
from_digit(d) == LowerDigits[d + 1]

\* Iterator::next on s.chars() at position pos (1-based), followed by
\* and_then(|c| c.to_digit(16)).
next_digit(s, pos) == IF pos <= Len(s) THEN to_digit(s[pos]) ELSE None

(***************************************************************************)
(* Sha256Hash::from_hex.  The loop reads two digits per byte, returns      *)
(* Err(()) at the first digit that is missing or no hex digit, and returns *)
(* Ok(res) as soon as idx reaches 32; what is left of the iterator is not  *)
(* looked at.  Err(()) is [ok |-> FALSE, hash |-> <<>>], Ok(h) is          *)
(* [ok |-> TRUE, hash |-> h].                                              *)
(***************************************************************************)
\* The loop body runs for idx = 0 .. 31 without returning Err.
from_hex_all_digits(s) ==
    \A idx \in 0..(HashBytes - 1) :
        next_digit(s, 2 * idx + 1) /= None /\ next_digit(s, 2 * idx + 2) /= None

\* res.0[idx] = (upper << 4) | lower, in u8.
from_hex_byte(upper, lower) == ((upper * 16) % 256) + lower

from_hex(s) ==
    IF from_hex_all_digits(s)
    THEN [ok |-> TRUE,
          hash |-> [i \in 1..HashBytes |->
                       from_hex_byte(next_digit(s, 2 * i - 1)[1], next_digit(s, 2 * i)[1])]]
    ELSE [ok |-> FALSE, hash |-> <<>>]

\* Sha256Hash::to_hex: two lowercase digits per byte.
to_hex(h) ==
    [k \in 1..(2 * HashBytes) |->
        IF k % 2 = 1 THEN from_digit(h[(k + 1) \div 2] \div 16)
                     ELSE from_digit(h[k \div 2] % 16)]

(***************************************************************************)
(* The world outside the library: file names, response bodies, SHA-256.    *)
(***************************************************************************)
Filenames == {"a.bin", "b.bin"}
ByteValues == {1}

\* Every byte string of at most n bytes.
BytesUpTo(n) == UNION {[1..k -> ByteValues] : k \in 0..n}
Bodies == BytesUpTo(MaxBody)

\* Sha256::new(), update(&bytes), Sha256Hash::from_digest: a 32-byte value that
\* differs for any two of the byte strings above (they differ in length).
Sha256(bytes) ==
    [i \in 1..HashBytes |-> (171 + 32 * Len(bytes) + 17 * i) % 256]

\* The ASCII uppercase of a string.
to_uppercase(s) ==
    [k \in 1..Len(s) |->
        IF \E i \in 1..16 : LowerDigits[i] = s[k]
        THEN UpperDigits[CHOOSE i \in 1..16 : LowerDigits[i] = s[k]]
        ELSE s[k]]

\* The expected-hash strings a caller declares: the lowercase hex of the hash
\* of the empty body, the uppercase hex of the hash of a one-byte body, and a
\* string that is no hex at all.
BadHex == [k \in 1..(2 * HashBytes) |-> "z"]
HashStrings ==
    {to_hex(Sha256(<<>>)), to_uppercase(to_hex(Sha256(<<1>>))), BadHex}

\* from_hex of each of them, computed once.
parsed == [s \in HashStrings |-> from_hex(s)]

\* TestAssetDef; the url is left out: the server's answer to each GET is
\* chosen afresh whatever the url.
TestAssetDef == [filename : Filenames, hash : HashStrings]
DefLists == UNION {[1..k -> TestAssetDef] : k \in 0..MaxAssets}

(***************************************************************************)
(* HashList (mod hash_list): a map from filename to hash, None where there *)
(* is no entry.                                                            *)
(***************************************************************************)
HashList_new == [f \in Filenames |-> None]
get_hash(l, filename) == l[filename]
add_entry(l, filename, hash) == [l EXCEPT ![filename] = Some(hash)]
\* from_file of what to_file wrote gives the list back.
to_file(l) == Some(l)
from_file(m) == m[1]

(***************************************************************************)
(* TaError and the results of the calls.                                   *)
(***************************************************************************)
Res(kind, found, expected) == [kind |-> kind, found |-> found, expected |-> expected]
NoRes == Res("none", <<>>, <<>>)
Ok == Res("Ok", <<>>, <<>>)
Io == Res("Io", <<>>, <<>>)
DownloadFailed == Res("DownloadFailed", <<>>, <<>>)
BadHashFormat == Res("BadHashFormat", <<>>, <<>>)
HashMismatch(found, expected) == Res("HashMismatch", found, expected)
\* An unwrap() on None or Err: the thread panics.
Panic == Res("Panic", <<>>, <<>>)
IsErr(r) == r.kind \in {"Io", "DownloadFailed", "BadHashFormat", "HashMismatch"}

(***************************************************************************)
(* What one GET meets: whether call() succeeds, the Content-Length header  *)
(* (None: absent, Some(None): present but no number, Some(Some(n))), the   *)
(* bytes the body stream yields before it ends, whether reading it reports *)
(* an error, and whether the destination file can be created.  A body is   *)
(* never longer than the declared length: the transport stops there.  The  *)
(* fields download_test_file does not get to are left at one value.        *)
(***************************************************************************)
Response(call_ok, header, body, read_ok, create_ok) ==
    [call_ok |-> call_ok, header |-> header, body |-> body, read_ok |-> read_ok,
     create_ok |-> create_ok]
Responses ==
    \* the request fails
    {Response(FALSE, None, <<>>, TRUE, TRUE)}
    \* no Content-Length header, or one that is no number
    \cup {Response(TRUE, h, b, TRUE, TRUE) : h \in {None, Some(None)}, b \in Bodies}
    \* reading the body reports an error
    \cup {Response(TRUE, Some(Some(n)), <<>>, FALSE, TRUE) : n \in 0..MaxBody}
    \* the stream ends after Len(b) of the n bytes declared
    \cup UNION {{Response(TRUE, Some(Some(n)), b, TRUE, c) :
                    b \in BytesUpTo(n), c \in BOOLEAN} : n \in 0..MaxBody}

\* The length check of download_test_file; read_len is what read_to_end
\* returned, bytes the vector it filled.
length_check_fails(bytes, read_len, len) ==
    (Len(bytes) /= read_len) /\ (Len(bytes) /= len)

\* download_test_file: the outcome and the files of the directory after it.
\* Ok(WithHash(h)) is [kind |-> "WithHash", found |-> h].
download_test_file(fs, tfile, r) ==
    IF ~r.call_ok THEN [res |-> DownloadFailed, files |-> fs]
    ELSE IF r.header = None THEN [res |-> Panic, files |-> fs]
    ELSE IF r.header[1] = None THEN [res |-> Panic, files |-> fs]
    ELSE IF ~r.read_ok THEN [res |-> Io, files |-> fs]
    ELSE LET len == r.header[1][1]
             bytes == <<>> \o r.body
             read_len == Len(r.body)
         IN  IF length_check_fails(bytes, read_len, len)
             THEN [res |-> DownloadFailed, files |-> fs]
             ELSE IF ~r.create_ok THEN [res |-> Io, files |-> fs]
             ELSE [res |-> Res("WithHash", Sha256(bytes), <<>>),
                   files |-> [fs EXCEPT ![tfile.filename] = Some(bytes)]]

(***************************************************************************)
(* State.                                                                  *)
(***************************************************************************)
VARIABLES
    dirExists,      \* the target directory exists
    files,          \* filename -> Some(content) of <dir>/<filename>, or None
    manifest,       \* Some(list) held by <dir>/hash_list, or None: no such file
    pc,             \* "idle", "start", "loop", "retry"
    mode,           \* "direct": dl_test_files, "backoff": dl_test_files_backoff
    defs,           \* the asset list of the call in progress
    idx,            \* position of the for loop in defs, 0 before the loop
    hash_list,      \* the HashList of the batch run in progress
    retries,        \* retries the backoff strategy has granted so far
    batchRes,       \* what the latest dl_test_files run returned
    callRes,        \* what the latest call returned to its caller
    netCalls,       \* positions of defs whose GET was issued in this batch run
    startFiles,     \* files when this batch run started
    startManifest,  \* manifest when this batch run started
    okEarlier,      \* positions fetched with the expected hash by earlier
                    \* batch runs of this dl_test_files_backoff call
    runs,           \* calls made so far
    served,         \* <<position, payload>> for each GET of this batch run
                    \* that the server answered with a whole payload
    loaded,         \* what HashList::from_file reported to this batch run:
                    \* "Ok", "NotFound", "Err", or "none" before it is called
    reads,          \* HashList::from_file calls of this batch run
    mkdirs,         \* create_dir_all calls of this batch run
    writes,         \* HashList::to_file calls of this batch run
    fn,             \* the function applied on its own: "from_hex", "to_hex",
                    \* "download_test_file", or "none"
    arg,            \* its argument
    ret             \* its result, None before it returns

vars == <<dirExists, files, manifest, pc, mode, defs, idx, hash_list, retries,
          batchRes, callRes, netCalls, startFiles, startManifest, okEarlier, runs,
          served, loaded, reads, mkdirs, writes, fn, arg, ret>>

\* The variables of the directory and of the calls on it.
dirVars == <<dirExists, files, manifest, pc, mode, defs, idx, hash_list, retries,
             batchRes, callRes, netCalls, startFiles, startManifest, okEarlier, runs,
             served, loaded, reads, mkdirs, writes>>

InitDir ==
    /\ dirExists = FALSE
    /\ files = [f \in Filenames |-> None]
    /\ manifest = None
    /\ pc = "idle"
    /\ mode = "direct"
    /\ defs = <<>>
    /\ idx = 0
    /\ hash_list = HashList_new
    /\ retries = 0
    /\ batchRes = NoRes
    /\ callRes = NoRes
    /\ netCalls = {}
    /\ startFiles = [f \in Filenames |-> None]
    /\ startManifest = None
    /\ okEarlier = {}
    /\ runs = 0
    /\ served = {}
    /\ loaded = "none"
    /\ reads = 0
    /\ mkdirs = 0
    /\ writes = 0

Init ==
    /\ InitDir
    /\ fn = "none"
    /\ arg = None
    /\ ret = None

(***************************************************************************)
(* Calls.                                                                  *)
(***************************************************************************)
\* A caller invokes dl_test_files(defs, dir, verbose).
CallDirect(d) ==
    /\ pc = "idle"
    /\ runs < MaxRuns
    /\ runs' = runs + 1
    /\ pc' = "start"
    /\ mode' = "direct"
    /\ defs' = d
    /\ idx' = 0
    /\ hash_list' = HashList_new
    /\ retries' = 0
    /\ batchRes' = NoRes
    /\ callRes' = NoRes
    /\ netCalls' = {}
    /\ okEarlier' = {}
    /\ startFiles' = files
    /\ startManifest' = manifest
    /\ served' = {}
    /\ loaded' = "none"
    /\ reads' = 0
    /\ mkdirs' = 0
    /\ writes' = 0
    /\ UNCHANGED <<dirExists, files, manifest, fn, arg, ret>>

\* A caller invokes dl_test_files_backoff(defs, dir, verbose, max_delay); the
\* retry closure runs dl_test_files for the first time.
CallBackoff(d) ==
    /\ pc = "idle"
    /\ runs < MaxRuns
    /\ runs' = runs + 1
    /\ pc' = "start"
    /\ mode' = "backoff"
    /\ defs' = d
    /\ idx' = 0
    /\ hash_list' = HashList_new
    /\ retries' = 0
    /\ batchRes' = NoRes
    /\ callRes' = NoRes
    /\ netCalls' = {}
    /\ okEarlier' = {}
    /\ startFiles' = files
    /\ startManifest' = manifest
    /\ served' = {}
    /\ loaded' = "none"
    /\ reads' = 0
    /\ mkdirs' = 0
    /\ writes' = 0
    /\ UNCHANGED <<dirExists, files, manifest, fn, arg, ret>>

\* Return that notes r and lets the run go on.
Return_continue(r) ==
    /\ batchRes' = r
    /\ UNCHANGED <<pc, callRes>>

\* dl_test_files returns r (or panics, r = Panic).  A direct call hands r to
\* the caller; under dl_test_files_backoff a panic unwinds through the
\* wrapper and anything else goes to the retry strategy.
Return(r) ==
    /\ batchRes' = r
    /\ IF mode = "direct" \/ r = Panic
       THEN pc' = "idle" /\ callRes' = r
       ELSE pc' = "retry" /\ callRes' = callRes

(***************************************************************************)
(* dl_test_files.                                                          *)
(***************************************************************************)
\* load_hash_list with NotFound failing the run like any other error.
load_hash_list_strict(m, load_ok) ==
    IF m /= None /\ load_ok
    THEN [ok |-> TRUE, list |-> from_file(m), loaded |-> "Ok"]
    ELSE [ok |-> FALSE, list |-> HashList_new,
          loaded |-> IF m = None THEN "NotFound" ELSE "Err"]

\* HashList::from_file(&hash_list_path) and the match on its result: Ok(l)
\* gives l, an Io error of kind NotFound gives HashList::new(), any other
\* error is returned.  The file is not found exactly when it does not exist.
load_hash_list(m, load_ok) ==
    IF m = None THEN [ok |-> TRUE, list |-> HashList_new, loaded |-> "NotFound"]
    ELSE IF load_ok THEN [ok |-> TRUE, list |-> from_file(m), loaded |-> "Ok"]
    ELSE [ok |-> FALSE, list |-> HashList_new, loaded |-> "Err"]

\* create_dir_all(dir) with its result dropped.
create_dir_all_unchecked(exists, mkdir_ok) == TRUE

\* create_dir_all(dir) is Ok when the directory exists already or is created.
create_dir_all(exists, mkdir_ok) == exists \/ mkdir_ok

\* The start of dl_test_files: the hash list is loaded, then create_dir_all(dir)?.
BatchStart(load_ok, mkdir_ok) ==
    /\ pc = "start"
    /\ reads' = reads + 1
    /\ LET ld == load_hash_list(manifest, load_ok)
       IN  /\ loaded' = ld.loaded
           /\ IF ~ld.ok
              THEN /\ Return(Io)
                   /\ UNCHANGED <<dirExists, hash_list, idx, mkdirs>>
              ELSE /\ hash_list' = ld.list
                   /\ mkdirs' = mkdirs + 1
                   /\ dirExists' = (dirExists \/ mkdir_ok)
                   /\ IF create_dir_all(dirExists, mkdir_ok)
                      THEN /\ pc' = "loop"
                           /\ idx' = 1
                           /\ UNCHANGED <<batchRes, callRes>>
                      ELSE /\ Return(Io)
                           /\ UNCHANGED idx
    /\ UNCHANGED <<files, manifest, mode, defs, retries, netCalls,
                   startFiles, startManifest, okEarlier, runs, served, writes,
                   fn, arg, ret>>

\* cache_hit that never finds the hash.
cache_hit_never(l, tfile, tfile_hash) == FALSE

\* The test of the loop body that skips an asset.
cache_hit(l, tfile, tfile_hash) == get_hash(l, tfile.filename) = Some(tfile_hash)

\* One iteration of the for loop whose from_hex fails.
AssetBadHash ==
    /\ pc = "loop"
    /\ idx <= Len(defs)
    /\ ~parsed[defs[idx].hash].ok
    /\ Return(BadHashFormat)
    /\ UNCHANGED <<dirExists, files, manifest, mode, defs, idx, hash_list, retries,
                   netCalls, startFiles, startManifest, okEarlier, runs, served,
                   loaded, reads, mkdirs, writes, fn, arg, ret>>

\* One iteration of the for loop that finds the hash in the list: continue.
AssetCacheHit ==
    /\ pc = "loop"
    /\ idx <= Len(defs)
    /\ parsed[defs[idx].hash].ok
    /\ cache_hit(hash_list, defs[idx], parsed[defs[idx].hash].hash)
    /\ idx' = idx + 1
    /\ UNCHANGED <<dirExists, files, manifest, pc, mode, defs, hash_list, retries,
                   batchRes, callRes, netCalls, startFiles, startManifest, okEarlier,
                   runs, served, loaded, reads, mkdirs, writes, fn, arg, ret>>

\* mismatch_error with its two strings in the other order.
mismatch_error_swapped(found_hash, tfile) == HashMismatch(tfile.hash, to_hex(found_hash))

\* The error of a downloaded file whose hash is not the declared one.
mismatch_error(found_hash, tfile) == HashMismatch(to_hex(found_hash), tfile.hash)

\* hash_matches that takes every hash found for the declared one.
hash_matches_always(found_hash, tfile_hash) == TRUE

\* found_hash == &tfile_hash.
hash_matches(found_hash, tfile_hash) == found_hash = tfile_hash

\* One iteration of the for loop that downloads the asset, meeting r.
AssetFetch(r) ==
    /\ pc = "loop"
    /\ idx <= Len(defs)
    /\ parsed[defs[idx].hash].ok
    /\ LET tfile == defs[idx]
           tfile_hash == parsed[tfile.hash].hash
           out == download_test_file(files, tfile, r)
       IN  /\ ~cache_hit(hash_list, tfile, tfile_hash)
           /\ netCalls' = netCalls \cup {idx}
           /\ served' = IF r.call_ok /\ r.read_ok
                        THEN served \cup {<<idx, r.body>>}
                        ELSE served
           /\ files' = out.files
           /\ IF out.res.kind /= "WithHash"
              THEN /\ Return(out.res)
                   /\ UNCHANGED <<hash_list, idx>>
              ELSE /\ hash_list' = add_entry(hash_list, tfile.filename, out.res.found)
                   /\ IF hash_matches(out.res.found, tfile_hash)
                      THEN /\ idx' = idx + 1
                           /\ UNCHANGED <<pc, batchRes, callRes>>
                      ELSE /\ Return(mismatch_error(out.res.found, tfile))
                           /\ UNCHANGED idx
    /\ UNCHANGED <<dirExists, manifest, mode, defs, retries, startFiles,
                   startManifest, okEarlier, runs, loaded, reads, mkdirs, writes,
                   fn, arg, ret>>

\* BatchFinish that may run before the loop has visited every asset.
BatchFinish_early(save_ok) ==
    /\ pc = "loop"
    /\ idx <= Len(defs) + 1
    /\ writes' = writes + 1
    /\ IF save_ok
       THEN manifest' = to_file(hash_list) /\ Return(Ok)
       ELSE UNCHANGED manifest /\ Return(Io)
    /\ UNCHANGED <<dirExists, files, mode, defs, idx, hash_list, retries, netCalls,
                   startFiles, startManifest, okEarlier, runs, served, loaded, reads,
                   mkdirs, fn, arg, ret>>

\* After the loop: hash_list.to_file(&hash_list_path)?; Ok(()).
BatchFinish(save_ok) ==
    /\ pc = "loop"
    /\ idx = Len(defs) + 1
    /\ writes' = writes + 1
    /\ IF save_ok
       THEN manifest' = to_file(hash_list) /\ Return(Ok)
       ELSE UNCHANGED manifest /\ Return(Io)
    /\ UNCHANGED <<dirExists, files, mode, defs, idx, hash_list, retries, netCalls,
                   startFiles, startManifest, okEarlier, runs, served, loaded, reads,
                   mkdirs, fn, arg, ret>>

(***************************************************************************)
(* dl_test_files_backoff: (|| dl_test_files(..)).retry(strategy).call()    *)
(* .unwrap(); Ok(()).                                                      *)
(***************************************************************************)
\* A strategy built without_max_times.
strategy_next_forever(n) == TRUE

\* ExponentialBuilder::default(): the strategy yields a delay for each of the
\* first max_times = 3 retries and None after that; with_max_delay caps the
\* delays, not their number.
strategy_next(n) == n < MaxTimes

\* Every error is retryable: the strategy is given no condition.
retryable(r) == TRUE

\* The positions the failed batch run fetched and found to have the hash the
\* asset declares: those the loop went past after a GET.
FetchedOk == {i \in netCalls : i < idx}

\* The batch run failed and the strategy grants another attempt: sleep, then
\* run dl_test_files again.
BackoffRetry ==
    /\ pc = "retry"
    /\ IsErr(batchRes)
    /\ retryable(batchRes)
    /\ strategy_next(retries)
    /\ retries' = retries + 1
    /\ pc' = "start"
    /\ idx' = 0
    /\ hash_list' = HashList_new
    /\ netCalls' = {}
    /\ okEarlier' = okEarlier \cup FetchedOk
    /\ startFiles' = files
    /\ startManifest' = manifest
    /\ served' = {}
    /\ loaded' = "none"
    /\ reads' = 0
    /\ mkdirs' = 0
    /\ writes' = 0
    /\ UNCHANGED <<dirExists, files, manifest, mode, defs, batchRes, callRes, runs,
                   fn, arg, ret>>

\* BackoffReturn with the error of the last run dropped: Ok(()) either way.
BackoffReturn_lenient ==
    /\ pc = "retry"
    /\ \/ batchRes = Ok /\ callRes' = Ok
       \/ /\ IsErr(batchRes)
          /\ ~retryable(batchRes) \/ ~strategy_next(retries)
          /\ callRes' = Ok
    /\ pc' = "idle"
    /\ UNCHANGED <<dirExists, files, manifest, mode, defs, idx, hash_list, retries,
                   batchRes, netCalls, startFiles, startManifest, okEarlier, runs,
                   served, loaded, reads, mkdirs, writes, fn, arg, ret>>

\* call() returns: Ok(()) is unwrapped and Ok(()) returned; an Err, once the
\* strategy is exhausted, makes unwrap() panic.
BackoffReturn ==
    /\ pc = "retry"
    /\ \/ batchRes = Ok /\ callRes' = Ok
       \/ /\ IsErr(batchRes)
          /\ ~retryable(batchRes) \/ ~strategy_next(retries)
          /\ callRes' = Panic
    /\ pc' = "idle"
    /\ UNCHANGED <<dirExists, files, manifest, mode, defs, idx, hash_list, retries,
                   batchRes, netCalls, startFiles, startManifest, okEarlier, runs,
                   served, loaded, reads, mkdirs, writes, fn, arg, ret>>

Next ==
    \/ \E d \in DefLists : CallDirect(d)
    \/ \E d \in DefLists : CallBackoff(d)
    \/ \E load_ok \in BOOLEAN, mkdir_ok \in BOOLEAN : BatchStart(load_ok, mkdir_ok)
    \/ AssetBadHash
    \/ AssetCacheHit
    \/ \E r \in Responses : AssetFetch(r)
    \/ \E save_ok \in BOOLEAN : BatchFinish(save_ok)
    \/ BackoffRetry
    \/ BackoffReturn

Spec == Init /\ [][Next]_vars

\* A step of a call in progress.  A call that has started keeps running: the
\* thread is not suspended for ever, every GET is answered or fails, and every
\* sleep of the strategy ends.
RunStep ==
    \/ \E load_ok \in BOOLEAN, mkdir_ok \in BOOLEAN : BatchStart(load_ok, mkdir_ok)
    \/ AssetBadHash
    \/ AssetCacheHit
    \/ \E r \in Responses : AssetFetch(r)
    \/ \E save_ok \in BOOLEAN : BatchFinish(save_ok)
    \/ BackoffRetry
    \/ BackoffReturn

\* One call of dl_test_files_backoff on the directory, run to its end.
CallBackoffOnce(d) == runs = 0 /\ CallBackoff(d)

NextLive ==
    \/ \E d \in DefLists : CallBackoffOnce(d)
    \/ RunStep

SpecLive == Init /\ [][NextLive]_vars /\ WF_vars(RunStep)

(***************************************************************************)
(* The functions applied on their own: from_hex to a string, to_hex to a   *)
(* hash value, and download_test_file to a directory, an asset and what    *)
(* the GET meets.                                                          *)
(***************************************************************************)
IsHexDigit(c) ==
    c \in {"0", "1", "2", "3", "4", "5", "6", "7", "8", "9",
           "a", "b", "c", "d", "e", "f", "A", "B", "C", "D", "E", "F"}

\* Strings of two alternating hex digits, whole or with one character
\* replaced by one that is no hex digit; their lengths are near 0 and near 64.
HexPatterns == {<<"0", "0">>, <<"a", "F">>, <<"9", "a">>, <<"F", "0">>}
NonHex == {"g", "z"}
HexLens == (0..MaxSlack) \cup ((2 * HashBytes - MaxSlack)..(2 * HashBytes + MaxSlack))
HexInputs ==
    UNION {{[k \in 1..n |-> c[2 - (k % 2)]] : c \in HexPatterns} : n \in HexLens}
    \cup UNION {{[k \in 1..n |-> IF k = q THEN x ELSE c[2 - (k % 2)]] :
                    c \in HexPatterns, q \in 1..n, x \in NonHex} : n \in HexLens}

\* Hash values handed to to_hex: one byte repeated 32 times, two bytes in
\* turn, and the hashes of the response bodies.
DigestBytes == {0, 9, 10, 15, 16, 160, 171, 255}
Digests ==
    {[i \in 1..HashBytes |-> b] : b \in DigestBytes}
    \cup {[i \in 1..HashBytes |-> IF i % 2 = 1 THEN b ELSE c] :
              b \in DigestBytes, c \in DigestBytes}
    \cup {Sha256(b) : b \in Bodies}

FileStates == [Filenames -> {None} \cup {Some(b) : b \in Bodies}]
DownloadInputs == [fs : FileStates, tfile : TestAssetDef, r : Responses]

InitFun ==
    /\ InitDir
    /\ ret = None
    /\ \/ fn = "from_hex" /\ arg \in HexInputs
       \/ fn = "to_hex" /\ arg \in Digests
       \/ fn = "download_test_file" /\ arg \in DownloadInputs

ApplyFromHex ==
    /\ fn = "from_hex"
    /\ ret = None
    /\ ret' = Some(from_hex(arg))
    /\ UNCHANGED <<dirVars, fn, arg>>

ApplyToHex ==
    /\ fn = "to_hex"
    /\ ret = None
    /\ ret' = Some(to_hex(arg))
    /\ UNCHANGED <<dirVars, fn, arg>>

ApplyDownload ==
    /\ fn = "download_test_file"
    /\ ret = None
    /\ ret' = Some(download_test_file(arg.fs, arg.tfile, arg.r))
    /\ UNCHANGED <<dirVars, fn, arg>>

NextFun == ApplyFromHex \/ ApplyToHex \/ ApplyDownload

SpecFun == InitFun /\ [][NextFun]_vars

(***************************************************************************)
(* Properties.                                                             *)
(***************************************************************************)
\* A dl_test_files run has returned Ok or Err; batchRes, idx, hash_list,
\* netCalls, startFiles and startManifest are those of that run.
Returned == pc \in {"idle", "retry"} /\ (batchRes = Ok \/ IsErr(batchRes))

\* The declared hash of defs[i] is 64 hex digits, possibly followed by more.
HexPrefix(s) == Len(s) >= 2 * HashBytes /\ \A k \in 1..(2 * HashBytes) : IsHexDigit(s[k])

\* When the batch run started the manifest mapped the filename of defs[i] to
\* the hash defs[i] declares.
CachedAtStart(i) ==
    /\ startManifest /= None
    /\ parsed[defs[i].hash].ok
    /\ get_hash(from_file(startManifest), defs[i].filename) = Some(parsed[defs[i].hash].hash)

\* For such an asset no GET was issued, and its file and its manifest entry
\* are as they were when the run started.
Untouched(i) ==
    /\ i \notin netCalls
    /\ files[defs[i].filename] = startFiles[defs[i].filename]
    /\ manifest /= None
    /\ get_hash(from_file(manifest), defs[i].filename)
           = get_hash(from_file(startManifest), defs[i].filename)

UniqueFilename(i) ==
    \A j \in 1..Len(defs) : j /= i => defs[j].filename /= defs[i].filename

\* C1 as stated: an asset whose filename the manifest maps to its declared
\* hash when the batch starts is never fetched, and its file and manifest
\* entry stay as they were.
C1_CacheHitIdempotence == \A i \in 1..Len(defs) : CachedAtStart(i) => Untouched(i)

\* C1 amended: the same, for an asset whose filename no other asset of the
\* batch uses.
C1_CacheHitUniqueFilename ==
    \A i \in 1..Len(defs) : (CachedAtStart(i) /\ UniqueFilename(i)) => Untouched(i)

\* A second run that returned Ok, skipped a cached asset and fetched another.
C1_Witness ==
    /\ Returned /\ batchRes = Ok /\ runs = 2 /\ netCalls /= {}
    /\ \E i \in 1..Len(defs) : CachedAtStart(i) /\ UniqueFilename(i)

\* C2: when a batch run has returned HashMismatch the manifest file holds the
\* hash list of the run, with the hash actually found for the failed asset.
C2_ManifestPersistedOnAbort ==
    (Returned /\ batchRes.kind = "HashMismatch") =>
        /\ manifest = to_file(hash_list)
        /\ get_hash(from_file(manifest), defs[idx].filename) /= None
        /\ to_hex(get_hash(from_file(manifest), defs[idx].filename)[1]) = batchRes.found

\* C3: under dl_test_files_backoff a batch run issues no GET for a position
\* that an earlier run of the same call fetched with the declared hash.
C3_RetrySkipsFetched == mode = "backoff" => netCalls \cap okEarlier = {}

\* The file of every entry of the manifest has the hash the entry records.
ManifestMatchesDisk ==
    manifest /= None =>
        \A f \in Filenames :
            get_hash(from_file(manifest), f) /= None =>
                /\ files[f] /= None
                /\ Sha256(files[f][1]) = get_hash(from_file(manifest), f)[1]

\* C4: whenever a batch run has returned, the manifest matches the disk.
C4_ManifestDiskConsistency == Returned => ManifestMatchesDisk

\* A GET is issued for defs[idx] in this step, and the step writes the file
\* anew with content whose hash is not the declared one.
FetchedMismatch ==
    /\ pc = "loop" /\ idx <= Len(defs)
    /\ idx \notin netCalls /\ idx \in netCalls'
    /\ files'[defs[idx].filename] /= files[defs[idx].filename]
    /\ parsed[defs[idx].hash].ok
    /\ Sha256(files'[defs[idx].filename][1]) /= parsed[defs[idx].hash].hash

\* C5: a fetch that yields a hash other than the declared one makes the run
\* return HashMismatch(found, expected) at that asset, and a run that returned
\* HashMismatch carries the hex of the hash of the file just written and the
\* hash string as declared, with no GET issued past that asset.
C5_MismatchDetection ==
    /\ [][FetchedMismatch =>
            /\ pc' /= "loop" /\ idx' = idx
            /\ batchRes' = HashMismatch(to_hex(Sha256(files'[defs[idx].filename][1])),
                                        defs[idx].hash)]_vars
    /\ []((Returned /\ batchRes.kind = "HashMismatch") =>
            /\ idx \in netCalls /\ \A j \in netCalls : j <= idx
            /\ files[defs[idx].filename] /= None
            /\ batchRes.found = to_hex(Sha256(files[defs[idx].filename][1]))
            /\ batchRes.expected = defs[idx].hash
            /\ parsed[defs[idx].hash].hash /= Sha256(files[defs[idx].filename][1]))

\* A run that returned HashMismatch for its second asset after fetching the
\* first, the declared hash being spelled in uppercase.
C5_Witness ==
    /\ Returned /\ batchRes.kind = "HashMismatch" /\ idx = 2 /\ netCalls = {1, 2}
    /\ batchRes.expected /= to_hex(parsed[defs[idx].hash].hash)

\* The response declares a length and the body ends before it.
Truncated(r) ==
    /\ r.call_ok /\ r.header /= None /\ r.header[1] /= None
    /\ Len(r.body) < r.header[1][1]

\* C6: download_test_file of a truncated response returns DownloadFailed and
\* leaves the files as they were.
C6_TruncatedTransferFails ==
    (fn = "download_test_file" /\ ret /= None /\ Truncated(arg.r)) =>
        /\ ret[1].res = DownloadFailed
        /\ ret[1].files = arg.fs

\* C7 as stated: a batch with a hash string that is not hex issues no GET.
C7_BadHashBeforeAnyCall ==
    (\E i \in 1..Len(defs) : ~HexPrefix(defs[i].hash)) => netCalls = {}

\* C7 amended: no GET is issued for an asset whose hash string is not hex nor
\* for any asset after it, a run that has reached it has returned
\* BadHashFormat, and no run of such a batch returns Ok.
C7_BadHashStopsBatch ==
    \A i \in 1..Len(defs) :
        ~HexPrefix(defs[i].hash) =>
            /\ \A j \in netCalls : j < i
            /\ idx <= i
            /\ (Returned /\ idx = i) => batchRes = BadHashFormat
            /\ Returned => batchRes /= Ok

\* A run that fetched its first asset and returned BadHashFormat at the second.
C7_Witness ==
    /\ Returned /\ batchRes = BadHashFormat /\ idx = 2 /\ netCalls = {1}
    /\ ~HexPrefix(defs[2].hash)

\* C8: when dl_test_files_backoff has returned and its last batch run failed,
\* it returned the error of that run.
C8_BackoffReturnsLastError ==
    (pc = "idle" /\ mode = "backoff" /\ callRes /= NoRes /\ IsErr(batchRes)) =>
        callRes = batchRes

\* C9: the wrapper starts no further batch run after one that returned
\* BadHashFormat.
C9_BadHashFormatNotRetried ==
    (mode = "backoff" /\ pc = "start" /\ retries > 0) => batchRes /= BadHashFormat

\* The string is exactly 64 hex digits.
IsHex64(s) == Len(s) = 2 * HashBytes /\ \A k \in 1..Len(s) : IsHexDigit(s[k])

\* C10: from_hex succeeds on the strings of exactly 64 hex digits and on no
\* other.
C10_FromHexExactly64 ==
    (fn = "from_hex" /\ ret /= None) => (ret[1].ok <=> IsHex64(arg))

\* The ASCII lowercase of a string.
to_lowercase(s) ==
    [k \in 1..Len(s) |->
        IF \E i \in 1..16 : UpperDigits[i] = s[k]
        THEN LowerDigits[CHOOSE i \in 1..16 : UpperDigits[i] = s[k]]
        ELSE s[k]]

\* C11: to_hex of a hash value is 64 lowercase hex digits that from_hex turns
\* back into the value, and to_hex of what from_hex made of a string it
\* accepted is the lowercase of that string.
C11_HexRoundTrip ==
    /\ (fn = "to_hex" /\ ret /= None) =>
            /\ Len(ret[1]) = 2 * HashBytes
            /\ \A k \in 1..Len(ret[1]) : \E i \in 1..16 : LowerDigits[i] = ret[1][k]
            /\ from_hex(ret[1]) = [ok |-> TRUE, hash |-> arg]
    /\ (fn = "from_hex" /\ ret /= None /\ ret[1].ok) =>
            to_hex(ret[1].hash) = to_lowercase(arg)

\* The dl_test_files run in progress is over: it returned or it panicked.
RunOver == pc \in {"idle", "retry"} /\ batchRes /= NoRes

AllFilenamesUnique ==
    \A i, j \in 1..Len(defs) : i /= j => defs[i].filename /= defs[j].filename

\* Every GET of the run was answered with a whole payload whose hash is the
\* one the asset declares.
ServedAsDeclared ==
    \A i \in netCalls :
        \E p \in served : p[1] = i /\ Sha256(p[2]) = parsed[defs[i].hash].hash

\* C12: a run over a batch of unique filenames and well-formed hashes, in
\* which every GET was served the declared payload and no operation on the
\* directory failed, returns Ok, leaves in each fetched file the bytes served,
\* and leaves a manifest that maps every asset's filename to its declared hash.
C12_SuccessfulFetch ==
    (/\ RunOver /\ AllFilenamesUnique /\ ServedAsDeclared
     /\ \A i \in 1..Len(defs) : parsed[defs[i].hash].ok
     /\ batchRes.kind /= "Io") =>
        /\ batchRes = Ok
        /\ \A p \in served : files[defs[p[1]].filename] = Some(p[2])
        /\ manifest /= None
        /\ \A i \in 1..Len(defs) :
               get_hash(from_file(manifest), defs[i].filename)
                   = Some(parsed[defs[i].hash].hash)

\* The response has no Content-Length header, or one that is no number.
UnknownLength(r) == r.call_ok /\ (r.header = None \/ r.header[1] = None)

\* C14: download_test_file of a response of unknown length whose body is read
\* and whose file can be created writes the body to the file and returns its
\* hash.
C14_UnknownLengthProceeds ==
    (/\ fn = "download_test_file" /\ ret /= None
     /\ UnknownLength(arg.r) /\ arg.r.read_ok /\ arg.r.create_ok) =>
        /\ ret[1].res = Res("WithHash", Sha256(arg.r.body), <<>>)
        /\ ret[1].files = [arg.fs EXCEPT ![arg.tfile.filename] = Some(arg.r.body)]

\* C13: from_file reports NotFound exactly when there is no manifest file; the
\* run then goes on to create_dir_all and enters the loop with an empty hash
\* list (every entry of the list comes from a GET of this run) unless the
\* directory cannot be created; a run
\* whose load failed otherwise has returned an error before the loop, with no
\* GET issued and the directory as it was.
C13_ManifestAbsence ==
    /\ loaded /= "none" => (loaded = "NotFound" <=> startManifest = None)
    /\ loaded = "NotFound" =>
           /\ mkdirs = 1
           /\ idx >= 1 \/ (~dirExists /\ batchRes = Io)
           /\ idx >= 1 =>
                  \A f \in Filenames :
                      get_hash(hash_list, f) /= None =>
                          \E i \in netCalls : defs[i].filename = f
    /\ loaded = "Err" =>
           /\ pc \in {"idle", "retry"} /\ IsErr(batchRes) /\ idx = 0
           /\ netCalls = {} /\ files = startFiles /\ manifest = startManifest

\* A run that found no manifest file in an existing directory, fetched an
\* asset and returned Ok.
C13_Witness ==
    /\ loaded = "NotFound" /\ runs = 2 /\ batchRes = Ok /\ netCalls /= {}
    /\ pc = "idle" /\ manifest /= None

\* The run returned an error at the asset at position idx.
PerFileError == Returned /\ IsErr(batchRes) /\ idx \in 1..Len(defs)

\* C15: a step of the loop issues a GET for the asset at idx only, all GETs so
\* far being for earlier positions, and either moves to the next asset or
\* leaves the loop; once the run is over nothing is fetched or written; and a
\* run that returned an error at an asset has issued no GET past it, has
\* written no file of a later asset and has recorded nothing in the manifest.
C15_AbortsAtFirstError ==
    /\ [][pc = "loop" =>
            /\ netCalls' \in {netCalls, netCalls \cup {idx}}
            /\ \A j \in netCalls : j < idx
            /\ (pc' = "loop" /\ idx' = idx + 1) \/ (pc' /= "loop" /\ idx' = idx)]_vars
    /\ [][(pc = "idle" \/ pc = "retry") =>
            /\ files' = files /\ manifest' = manifest
            /\ (netCalls' = netCalls \/ netCalls' = {})]_vars
    /\ [](PerFileError =>
            /\ \A j \in netCalls : j <= idx
            /\ \A p \in served : p[1] <= idx
            /\ manifest = startManifest
            /\ \A j \in (idx + 1)..Len(defs) :
                   files[defs[j].filename] /= startFiles[defs[j].filename] =>
                       \E i \in netCalls : defs[i].filename = defs[j].filename)

\* A run of two assets that returned an error at the first one, after a GET.
C15_Witness ==
    /\ PerFileError /\ idx = 1 /\ Len(defs) = 2 /\ netCalls = {1}
    /\ defs[1].filename /= defs[2].filename

\* C16: before the load no asset is processed; in the loop from_file has been
\* called once and to_file not yet; a run that is over has called from_file
\* once and to_file at most once, and then only after the loop visited every
\* asset; a step that issues a GET calls neither; and the manifest file changes
\* only in a step that calls to_file.
C16_ManifestReadOnceWrittenOnce ==
    /\ [](pc = "start" => reads = 0 /\ writes = 0 /\ idx = 0 /\ netCalls = {})
    /\ [](pc = "loop" => reads = 1 /\ writes = 0)
    /\ [](RunOver =>
            /\ reads = 1 /\ writes <= 1
            /\ writes = 1 => idx = Len(defs) + 1)
    /\ [][(netCalls' /= netCalls /\ netCalls' /= {}) =>
            reads' = reads /\ writes' = writes /\ manifest' = manifest]_vars
    /\ [][manifest' /= manifest => writes' = writes + 1]_vars

\* A run that fetched two assets and then wrote the manifest.
C16_Witness ==
    RunOver /\ batchRes = Ok /\ netCalls = {1, 2} /\ reads = 1 /\ writes = 1

\* C17: the loop runs, and a GET is issued, only after create_dir_all has been
\* called and the directory exists; a run whose create_dir_all failed has
\* returned Io before the loop, with no GET issued, no file written and the
\* manifest as it was.
C17_DirectoryEnsuredFirst ==
    /\ mkdirs <= 1
    /\ (pc = "loop" \/ netCalls /= {} \/ idx >= 1) => (dirExists /\ mkdirs = 1)
    /\ (mkdirs = 1 /\ ~dirExists) =>
           /\ pc \in {"idle", "retry"} /\ batchRes = Io /\ idx = 0
           /\ netCalls = {} /\ served = {}
           /\ files = startFiles /\ manifest = startManifest

\* A run over two assets whose create_dir_all failed.
C17_Witness ==
    /\ mkdirs = 1 /\ ~dirExists /\ batchRes = Io /\ pc = "idle" /\ Len(defs) = 2

\* The entry of the manifest file m for filename f.
Entry(m, f) == IF m = None THEN None ELSE get_hash(from_file(m), f)

\* C18: every entry that a step adds to or changes in the manifest file is the
\* hash of a payload served in this run for an asset of that filename whose
\* declared hash it equals.
C18_ManifestGainsVerifiedOnly ==
    [][\A f \in Filenames :
          Entry(manifest', f) /= Entry(manifest, f) =>
              \E p \in served :
                  /\ defs[p[1]].filename = f
                  /\ Sha256(p[2]) = parsed[defs[p[1]].hash].hash
                  /\ Entry(manifest', f) = Some(Sha256(p[2]))]_vars

\* A second run that returned Ok and left a manifest other than the one it
\* started with.
C18_Witness ==
    /\ RunOver /\ batchRes = Ok /\ runs = 2 /\ netCalls /= {}
    /\ startManifest /= None /\ manifest /= startManifest

\* C19: the strategy never grants more than MaxTimes retries, so a call of
\* dl_test_files_backoff makes at most MaxTimes + 1 batch runs, and every such
\* call that has started comes to an end.
C19_RetryTerminates ==
    /\ [](retries <= MaxTimes)
    /\ (mode = "backoff" /\ pc /= "idle") ~> (pc = "idle")

\* A call of dl_test_files_backoff that ended after its last retry failed.
C19_Witness ==
    /\ mode = "backoff" /\ pc = "idle" /\ retries = MaxTimes
    /\ IsErr(batchRes) /\ callRes = Panic

\* C20: a call of dl_test_files_backoff that returned Ok had its last batch run
\* return Ok; a batch run starts again only after a run that returned an
\* error; and the step after a run that returned Ok ends the call with Ok,
\* issuing no GET and writing neither a file nor the manifest.
C20_BackoffOkAfterFirstSuccess ==
    /\ []((mode = "backoff" /\ pc = "idle" /\ callRes = Ok) => batchRes = Ok)
    /\ [][(pc = "retry" /\ pc' = "start") => IsErr(batchRes)]_vars
    /\ [][(pc = "retry" /\ batchRes = Ok) =>
            /\ pc' = "idle" /\ callRes' = Ok
            /\ retries' = retries /\ netCalls' = netCalls /\ writes' = writes
            /\ files' = files /\ manifest' = manifest]_vars

\* A call of dl_test_files_backoff that returned Ok from a retry that issued
\* a GET.
C20_Witness ==
    /\ mode = "backoff" /\ pc = "idle" /\ callRes = Ok /\ batchRes = Ok
    /\ retries >= 1 /\ netCalls /= {}
====
